---------------------------- MODULE Spec2Model ----------------------------
(***************************************************************************)
(* Model of holopy/fitting/model.py: the parameter binder                  *)
(* (ParameterizedObject), BaseModel / Model and Model.residual.            *)
(*                                                                         *)
(* Names are Python strings; they are modelled as sequences of one         *)
(* character strings so that tied_name (a common suffix and a strip) and   *)
(* sorted() can be computed character by character.                        *)
(*                                                                         *)
(* The scatterer is an external object: obj.parameters is taken to give a  *)
(* fresh dict on every access (a property), and the scatterer that         *)
(* obj.from_parameters builds is identified with the mapping it is given.  *)
(* The xr.DataArray branches (a labelled array is traversed like a dict of *)
(* its labels) are not modelled.                                           *)
(***************************************************************************)
EXTENDS Integers, Sequences, FiniteSets, TLC

(***************************************************************************)
(* Strings                                                                 *)
(***************************************************************************)
\* the characters that occur in the names of the model, in code point order
Chars == <<".", "0", "1", "2", "3", ":", "_",
           "a", "b", "c", "d", "e", "g", "h", "i", "l", "m", "n", "o", "p",
           "r", "t", "u", "v", "w", "x", "y", "z">>

Ord(c) == CHOOSE i \in 1..Len(Chars) : Chars[i] = c

\* Python's str.__lt__ : lexicographic by code point, used by sorted()
RECURSIVE StrLess(_, _)
StrLess(a, b) ==
    IF b = <<>> THEN FALSE
    ELSE IF a = <<>> THEN TRUE
    ELSE IF Head(a) = Head(b) THEN StrLess(Tail(a), Tail(b))
    ELSE Ord(Head(a)) < Ord(Head(b))

\* s[::-1]
RECURSIVE Reverse(_)
Reverse(s) == IF s = <<>> THEN <<>> ELSE Append(Reverse(Tail(s)), Head(s))

\* os.path.commonprefix([a, b])
RECURSIVE commonprefix(_, _)
commonprefix(a, b) ==
    IF a = <<>> \/ b = <<>> THEN <<>>
    ELSE IF Head(a) = Head(b) THEN <<Head(a)>> \o commonprefix(Tail(a), Tail(b))
    ELSE <<>>

\* str.lstrip(chars)
RECURSIVE lstrip(_, _)
lstrip(s, chars) ==
    IF s # <<>> /\ Head(s) \in chars THEN lstrip(Tail(s), chars) ELSE s

\* str.strip(chars): both ends
strip(s, chars) == Reverse(lstrip(Reverse(lstrip(s, chars)), chars))

\* tied_name with '.' among the stripped separator characters
tied_name_strips_dot(name1, name2) ==
    LET common_suffix == Reverse(commonprefix(Reverse(name1), Reverse(name2)))
    IN  strip(common_suffix, {":", "_", "."})

tied_name(name1, name2) ==
    LET common_suffix == Reverse(commonprefix(Reverse(name1), Reverse(name2)))
    IN  strip(common_suffix, {":", "_"})


(***************************************************************************)
(* Values of holopy.inference.prior and of a scatterer description         *)
(***************************************************************************)
\* a scalar Prior; id is the object's identity (the `is` of add_par)
Prior(id, guess) == [kind |-> "Prior", id |-> id, guess |-> guess]
\* Fixed(value): a Prior that is never varied
Fixed(id, guess) == [kind |-> "Fixed", id |-> id, guess |-> guess]
\* ComplexPrior(real, imag)
ComplexPrior(id, real, imag) ==
    [kind |-> "ComplexPrior", id |-> id, real |-> real, imag |-> imag]
\* a plain Python number
Num(v) == [kind |-> "num", val |-> v]
\* a dict of leaves, in insertion order: a sequence of [key, val]
Dict(items) == [kind |-> "dict", items |-> items]
\* None
None == [kind |-> "None"]

\* isinstance(p, Prior): Fixed and ComplexPrior are Priors
IsPrior(p) == p.kind \in {"Prior", "Fixed", "ComplexPrior"}
\* isinstance(p, Fixed)
IsFixed(p) == p.kind = "Fixed"
\* p is q (object identity): only objects that carry an id are compared
Is(p, q) == p.kind = q.kind /\ p.id = q.id

\* the identity of the Fixed object add_par creates around a non-Prior
FreshId == 0

(***************************************************************************)
(* ParameterizedObject.__init__                                            *)
(***************************************************************************)
\* position of a key in the ties dict (a sequence of [key, group]), or 0
TieIndex(ties, key) ==
    IF \E k \in 1..Len(ties) : ties[k].key = key
    THEN CHOOSE k \in 1..Len(ties) : ties[k].key = key
    ELSE 0

\* ties[key] = group : replaces the value in place or appends a new key
TieSet(ties, key, group) ==
    LET k == TieIndex(ties, key)
    IN  IF k = 0 THEN Append(ties, [key |-> key, group |-> group])
        ELSE [ties EXCEPT ![k] = [key |-> key, group |-> group]]

\* the index at which the loop of add_par breaks, or 0 when it runs to None
FoundAt(parameters, p) ==
    IF \E i \in 1..Len(parameters) : Is(p, parameters[i])
    THEN CHOOSE i \in 1..Len(parameters) :
            /\ Is(p, parameters[i])
            /\ \A j \in 1..(i-1) : ~Is(p, parameters[j])
    ELSE 0

\* the closure add_par(p, name) acting on the locals parameters, names, ties
add_par(st, p0, name) ==
    LET p == IF ~IsPrior(p0) THEN Fixed(FreshId, p0) ELSE p0
        i == FoundAt(st.parameters, p)
    IN  IF i # 0
        THEN LET new_name == tied_name(st.names[i], name)
                 k        == TieIndex(st.ties, new_name)
                 group    == IF k # 0 THEN st.ties[k].group
                             ELSE <<st.names[i]>>
             IN  [parameters |-> st.parameters,
                  names      |-> [st.names EXCEPT ![i] = new_name],
                  ties       |-> TieSet(st.ties, new_name, Append(group, name))]
        ELSE IF ~IsFixed(p)
             THEN [parameters |-> Append(st.parameters, p),
                   names      |-> Append(st.names, name),
                   ties       |-> st.ties]
             ELSE st

\* sorted(obj.parameters.items(), key=name): insertion sort
RECURSIVE SortInsert(_, _)
SortInsert(sorted, e) ==
    IF sorted = <<>> THEN <<e>>
    ELSE IF StrLess(e.name, Head(sorted).name) THEN <<e>> \o sorted
    ELSE <<Head(sorted)>> \o SortInsert(Tail(sorted), e)

RECURSIVE sorted_parameters(_)
sorted_parameters(items) ==
    IF items = <<>> THEN <<>>
    ELSE SortInsert(sorted_parameters(Tail(items)), Head(items))

\* name + '.real', name + '_' + key
DotReal == <<".", "r", "e", "a", "l">>
DotImag == <<".", "i", "m", "a", "g">>
Sub(name, key) == name \o <<"_">> \o key

\* the add_par calls one entry of the description gives rise to, in order
RECURSIVE DictCalls(_, _)
DictCalls(name, items) ==
    IF items = <<>> THEN <<>>
    ELSE <<[p |-> Head(items).val, name |-> Sub(name, Head(items).key)]>>
         \o DictCalls(name, Tail(items))

EntryCalls(e) ==
    IF e.par.kind = "ComplexPrior"
    THEN << [p |-> e.par.real, name |-> e.name \o DotReal],
            [p |-> e.par.imag, name |-> e.name \o DotImag] >>
    ELSE IF e.par.kind = "dict" THEN DictCalls(e.name, e.par.items)
    ELSE IF IsPrior(e.par) THEN << [p |-> e.par, name |-> e.name] >>
    ELSE <<>>

RECURSIVE AddAll(_, _)
AddAll(st, calls) ==
    IF calls = <<>> THEN st
    ELSE AddAll(add_par(st, Head(calls).p, Head(calls).name), Tail(calls))

RECURSIVE Traverse(_, _)
Traverse(st, entries) ==
    IF entries = <<>> THEN st
    ELSE Traverse(AddAll(st, EntryCalls(Head(entries))), Tail(entries))

\* the locals parameters, names, ties when the traversal is over
Discovered(o) ==
    Traverse([parameters |-> <<>>, names |-> <<>>, ties |-> <<>>],
             sorted_parameters(o))

\* deepcopy(parameters) and parameters[i].name = names[i]; a copy is a new
\* object: copy |-> TRUE tells it from the Prior of the description
NamedCopies(st) ==
    [i \in 1..Len(st.parameters) |->
        [kind  |-> st.parameters[i].kind,
         id    |-> st.parameters[i].id,
         guess |-> st.parameters[i].guess,
         name  |-> st.names[i],
         copy  |-> TRUE]]


(***************************************************************************)
(* ParameterizedObject.make_from and ParameterizedObject.guess             *)
(***************************************************************************)
\* what a failed dict lookup parameters[name] gives
KeyError == [kind |-> "KeyError"]
\* a complex number
Complex(re, im) == [kind |-> "complex", re |-> re, im |-> im]
\* the value of a dict comprehension: key -> value
DictVal(items) == [kind |-> "dictval", items |-> items]

\* the loop over self.ties.items() in get_val: it does not break, so a name
\* that was replaced by a group name is looked up in the later groups too
RECURSIVE TieResolve(_, _, _)
TieResolve(ties, k, name) ==
    IF k > Len(ties) THEN name
    ELSE TieResolve(ties, k + 1,
            IF \E m \in 1..Len(ties[k].group) : ties[k].group[m] = name
            THEN ties[k].key ELSE name)

\* the closure get_val(par, name) of make_from
get_val(ties, parameters, par, name) ==
    IF ~IsPrior(par) THEN par
    ELSE IF IsFixed(par) THEN Num(par.guess)
    ELSE LET n == TieResolve(ties, 1, name)
         IN  IF n \in DOMAIN parameters THEN parameters[n] ELSE KeyError

\* get_val(par.real, ...) + 1j * get_val(par.imag, ...)
ComplexOf(re, im) ==
    IF re = KeyError \/ im = KeyError THEN KeyError
    ELSE IF re.kind = "num" /\ im.kind = "num" THEN Complex(re.val, im.val)
    ELSE [kind |-> "TypeError"]

RECURSIVE DictGet(_, _, _, _)
DictGet(ties, parameters, name, items) ==
    IF items = <<>> THEN <<>>
    ELSE <<[key |-> Head(items).key,
            val |-> get_val(ties, parameters, Head(items).val,
                            Sub(name, Head(items).key))]>>
         \o DictGet(ties, parameters, name, Tail(items))

\* par_val of one entry of self.obj.parameters
par_val(ties, parameters, e) ==
    IF e.par.kind = "ComplexPrior"
    THEN ComplexOf(get_val(ties, parameters, e.par.real, e.name \o DotReal),
                   get_val(ties, parameters, e.par.imag, e.name \o DotImag))
    ELSE IF e.par.kind = "dict"
    THEN LET items == DictGet(ties, parameters, e.name, e.par.items)
         IN  IF \E m \in 1..Len(items) : items[m].val = KeyError
             THEN KeyError ELSE DictVal(items)
    ELSE IF IsPrior(e.par) THEN get_val(ties, parameters, e.par, e.name)
    ELSE e.par

\* obj_pars[n] = v for every n of a list of names
RECURSIVE PutAll(_, _, _)
PutAll(obj_pars, names, v) ==
    IF names = <<>> THEN obj_pars
    ELSE PutAll((Head(names) :> v) @@ obj_pars, Tail(names), v)

\* the loop over self.obj.parameters.items(); the result is obj_pars, or
\* KeyError as soon as one lookup fails
RECURSIVE ObjPars(_, _, _, _)
ObjPars(ties, parameters, entries, obj_pars) ==
    IF entries = <<>> THEN [status |-> "ok", pars |-> obj_pars]
    ELSE LET e == Head(entries)
             v == par_val(ties, parameters, e)
             k == TieIndex(ties, e.name)
         IN  IF v.kind \in {"KeyError", "TypeError"}
             THEN [status |-> v.kind, pars |-> <<>>]
             ELSE ObjPars(ties, parameters, Tail(entries),
                    IF k # 0 THEN PutAll(obj_pars, ties[k].group, v)
                    ELSE (e.name :> v) @@ obj_pars)

\* make_from(parameters): the scatterer is identified with the mapping that
\* is handed to obj.from_parameters
make_from(o, ties, parameters) == ObjPars(ties, parameters, o, <<>>)

\* the dict pars that the guess property builds from self.obj.parameters
RECURSIVE GuessPars(_, _)
GuessPars(entries, pars) ==
    IF entries = <<>> THEN pars
    ELSE LET e == Head(entries)
         IN  GuessPars(Tail(entries),
                IF e.par.kind = "ComplexPrior"
                THEN ((e.name \o DotReal) :> Num(e.par.real.guess))
                     @@ ((e.name \o DotImag) :> Num(e.par.imag.guess))
                     @@ pars
                ELSE IF IsPrior(e.par)
                THEN (e.name :> Num(e.par.guess)) @@ pars
                ELSE pars)

\* obj.parameters as a mapping name -> leaf
AsMapping(o) ==
    [n \in {o[k].name : k \in 1..Len(o)} |->
        (CHOOSE e \in {o[k] : k \in 1..Len(o)} : e.name = n).par]

\* the guess property
guess(o, ties) == make_from(o, ties, GuessPars(o, AsMapping(o)))


(***************************************************************************)
(* BaseModel / Model                                                       *)
(***************************************************************************)
\* the names of the auxiliary roles
medium_index == <<"m","e","d","i","u","m","_","i","n","d","e","x">>
illum_wavelen == <<"i","l","l","u","m","_","w","a","v","e","l","e","n">>
illum_polarization ==
    <<"i","l","l","u","m","_","p","o","l","a","r","i","z","a","t","i","o","n">>
theory == <<"t","h","e","o","r","y">>
alpha == <<"a","l","p","h","a">>

\* Prior.name before a name is bound (None)
NoName == <<>>

\* a Prior handed to the Model by its caller; name is None until it is bound
NamedPrior(kind, id, g, name) ==
    [kind |-> kind, id |-> id, guess |-> g, name |-> name, copy |-> FALSE]
\* a Python string value
Str(v) == [kind |-> "str", val |-> v]

\* the name a Prior object carries when _use_parameter meets it: an object
\* that an earlier _use_parameter call appended has kept the name set then
CurrentName(parameters, par) ==
    IF \E i \in 1..Len(parameters) :
            ~parameters[i].copy /\ Is(parameters[i], par)
    THEN (CHOOSE q \in {parameters[i] : i \in 1..Len(parameters)} :
            ~q.copy /\ Is(q, par)).name
    ELSE par.name

\* the keys of a dict, list(par.keys())
Keys(items) == [k \in 1..Len(items) |-> items[k].key]

\* _use_parameter(par, name) acting on the attributes of the model and on
\* the list self._parameters
RECURSIVE use_parameter(_, _, _)
RECURSIVE use_items(_, _, _)
use_items(m, items, name) ==
    IF items = <<>> THEN m
    ELSE use_items(use_parameter(m, Head(items).val, Sub(name, Head(items).key)),
                   Tail(items), name)

use_parameter(m, par, name) ==
    IF par.kind = "dict"
    THEN use_items([m EXCEPT !.names = (name :> Keys(par.items)) @@ @],
                   par.items, name)
    ELSE IF IsPrior(par)
         THEN LET cur == CurrentName(m.parameters, par)
                  p   == [par EXCEPT !.name = IF cur = NoName THEN name ELSE cur]
              IN  [m EXCEPT !.attrs = (name :> p) @@ @,
                            !.parameters = Append(@, p)]
         ELSE [m EXCEPT !.attrs = (name :> par) @@ @]

\* BaseModel.__init__ followed by the rest of Model.__init__, for a scatterer
\* that is already a ParameterizedObject: self._parameters is the binder's
\* own list
ModelAttrs(binder_parameters, a) ==
    LET m0 == [attrs |-> <<>>, names |-> <<>>, parameters |-> binder_parameters]
        m1 == use_parameter(m0, a.medium_index, medium_index)
        m2 == use_parameter(m1, a.illum_wavelen, illum_wavelen)
        m3 == use_parameter(m2, a.illum_polarization, illum_polarization)
        m4 == use_parameter(m3, a.theory, theory)
    IN  use_parameter(m4, a.alpha, alpha)

\* pars without the key name: what pars.pop(name) leaves
Pop(pars, name) == [n \in DOMAIN pars \ {name} |-> pars[n]]

\* get_parameter(name, pars, schema): the value or the exception, and pars
\* as the call leaves it
RECURSIVE get_parameter(_, _, _, _)
RECURSIVE get_sub(_, _, _, _, _)
get_sub(m, name, keys, pars, acc) ==
    IF keys = <<>> THEN [exc |-> "", excname |-> <<>>,
                         val |-> DictVal(acc), pars |-> pars]
    ELSE LET r == get_parameter(m, Sub(name, Head(keys)), pars, None)
         IN  IF r.exc # "" THEN r
             ELSE get_sub(m, name, Tail(keys), r.pars,
                          Append(acc, [key |-> Head(keys), val |-> r.val]))

\* get_parameter with the attribute looked at before pars
get_parameter_attr_first(m, name, pars, schema) ==
    IF name \in DOMAIN m.attrs /\ m.attrs[name] # None
    THEN [exc |-> "", excname |-> <<>>, val |-> m.attrs[name], pars |-> pars]
    ELSE IF name \in DOMAIN pars
    THEN [exc |-> "", excname |-> <<>>, val |-> pars[name],
          pars |-> Pop(pars, name)]
    ELSE IF name \in DOMAIN m.names
    THEN get_sub(m, name, m.names[name], pars, <<>>)
    ELSE IF schema # None /\ name \in DOMAIN schema.attrs
    THEN [exc |-> "", excname |-> <<>>, val |-> schema.attrs[name],
          pars |-> pars]
    ELSE [exc |-> "MissingParameter", excname |-> name, val |-> None,
          pars |-> pars]

get_parameter(m, name, pars, schema) ==
    IF name \in DOMAIN pars
    THEN [exc |-> "", excname |-> <<>>, val |-> pars[name],
          pars |-> Pop(pars, name)]
    ELSE IF name \in DOMAIN m.attrs /\ m.attrs[name] # None
    THEN [exc |-> "", excname |-> <<>>, val |-> m.attrs[name], pars |-> pars]
    ELSE IF name \in DOMAIN m.names
    THEN get_sub(m, name, m.names[name], pars, <<>>)
    ELSE IF schema # None /\ name \in DOMAIN schema.attrs
    THEN [exc |-> "", excname |-> <<>>, val |-> schema.attrs[name],
          pars |-> pars]
    ELSE [exc |-> "MissingParameter", excname |-> name, val |-> None,
          pars |-> pars]


\* np.inf
PosInf == 1000000

\* the number of elements of an array of a given shape
RECURSIVE Size(_)
Size(shape) == IF shape = <<>> THEN 1 ELSE Head(shape) * Size(Tail(shape))

\* an array: its shape and its elements in row-major order
Array(shape, vals) == [shape |-> shape, vals |-> vals]

\* np.ones_like(schema) * np.inf
InfLike(schema) ==
    Array(schema.shape, [k \in 1..Size(schema.shape) |-> PosInf])

\* a - b elementwise
Minus(a, b) ==
    Array(a.shape,
          [k \in 1..Len(a.vals) |->
              IF a.vals[k] = PosInf THEN PosInf ELSE a.vals[k] - b.vals[k]])

\* get_values(x).flatten()
flatten(a) == Array(<<Len(a.vals)>>, a.vals)

\* the three get_parameter calls of _optics_scatterer, in the order of
\* optics_keys; stops at the first MissingParameter
RECURSIVE get_optics(_, _, _, _, _)
get_optics(m, keys, pars, schema, acc) ==
    IF keys = <<>> THEN [exc |-> "", excname |-> <<>>, val |-> acc,
                         pars |-> pars]
    ELSE LET r == get_parameter(m, Head(keys), pars, schema)
         IN  IF r.exc # "" THEN r
             ELSE get_optics(m, Tail(keys), r.pars, schema,
                             (Head(keys) :> r.val) @@ acc)

optics_keys == <<medium_index, illum_wavelen, illum_polarization>>

\* the loop `valid = valid and constraint.check(scatterer)`: the results of
\* the checks that are really called (`and` does not call check once valid
\* is false); outcomes[k] is what constraint k answers for this scatterer
RECURSIVE checks_called(_, _)
checks_called(outcomes, valid) ==
    IF outcomes = <<>> \/ ~valid THEN <<>>
    ELSE <<Head(outcomes)>> \o checks_called(Tail(outcomes), Head(outcomes))

AllTrue(bs) == \A k \in 1..Len(bs) : bs[k]

\* valid after a loop that reads `valid = constraint.check(scatterer)`
valid_after_last_only(outcomes) ==
    outcomes = <<>> \/ outcomes[Len(outcomes)]

\* valid after the loop
valid_after(outcomes) ==
    LET called == checks_called(outcomes, TRUE)
    IN  Len(called) = Len(outcomes) /\ AllTrue(called)

\* the try / except around calc_func: what _calc returns when calc_func
\* has been called
call_calc_func_propagates(schema, calcdoes) ==
    IF calcdoes.raises THEN [status |-> "Exception", arr |-> Array(<<>>, <<>>)]
    ELSE [status |-> "ok", arr |-> Array(schema.shape, calcdoes.vals)]

call_calc_func(schema, calcdoes) ==
    IF calcdoes.raises THEN [status |-> "ok", arr |-> InfLike(schema)]
    ELSE [status |-> "ok", arr |-> Array(schema.shape, calcdoes.vals)]

\* the alpha lookup of _calc with a MissingParameter left to give alpha = 0
alpha_or_default_zero(r) ==
    IF r.exc = "MissingParameter" THEN Num(0) ELSE r.val

\* try: alpha = self.get_parameter('alpha', pars)
\* except MissingParameter: alpha = 1
alpha_or_default(r) ==
    IF r.exc = "MissingParameter" THEN Num(1) ELSE r.val

\* Model._calc(pars, schema).  outcomes: the answers of the constraints;
\* calcdoes: what calc_func does when called (raises, or the values of the
\* array it returns).  Gives the returned array or the exception, with the
\* checks and the calc_func calls that were made.
calc(o, ties, m, outcomes, calcdoes, pars0, schema) ==
    LET a0      == get_parameter(m, alpha, pars0, None)
        scaling == alpha_or_default(a0)
        optics  == get_optics(m, optics_keys, a0.pars, schema, <<>>)
        scat    == make_from(o, ties, optics.pars)
        called  == checks_called(outcomes, TRUE)
        call    == [scatterer |-> scat.pars, scaling |-> scaling,
                    theory |-> m.attrs[theory], optics |-> optics.val]
        done    == call_calc_func(schema, calcdoes)
    IN  IF optics.exc # ""
        THEN [status |-> optics.exc, excname |-> optics.excname,
              arr |-> Array(<<>>, <<>>), checked |-> <<>>, calls |-> <<>>]
        ELSE IF scat.status # "ok"
        THEN [status |-> scat.status, excname |-> <<>>,
              arr |-> Array(<<>>, <<>>), checked |-> <<>>, calls |-> <<>>]
        ELSE IF ~valid_after(outcomes)
        THEN [status |-> "ok", excname |-> <<>>, arr |-> InfLike(schema),
              checked |-> called, calls |-> <<>>]
        ELSE [status |-> done.status, excname |-> <<>>, arr |-> done.arr,
              checked |-> called, calls |-> <<call>>]

\* Model.residual(pars, data)
residual(o, ties, m, outcomes, calcdoes, pars, data) ==
    LET c == calc(o, ties, m, outcomes, calcdoes, pars, data)
    IN  IF c.status # "ok" THEN c
        ELSE [c EXCEPT !.arr = flatten(Minus(c.arr, data))]


(***************************************************************************)
(* The constraint limit_overlaps.  Fractions are exact: a fraction is the  *)
(* number of its tenths, overlaps and radii are integers.                  *)
(***************************************************************************)
\* the tenths in one unit
Tenths == 10
\* the default of limit_overlaps.__init__(self, fraction=.1), in tenths
DefaultFraction == 1
\* the argument of a call that does not give fraction
NotGiven == [kind |-> "notgiven"]

\* limit_overlaps(fraction): self.fraction = fraction
limit_overlaps(fraction) ==
    [fraction |-> IF fraction = NotGiven THEN DefaultFraction
                  ELSE fraction.val]

\* np.min(s.r)
RECURSIVE np_min(_)
np_min(r) ==
    IF Len(r) = 1 THEN r[1]
    ELSE LET m == np_min(Tail(r)) IN IF r[1] < m THEN r[1] ELSE m

\* check with the bound excluded
check_strict(self, s) ==
    s.largest_overlap * Tenths < (np_min(s.r) * 2) * self.fraction

\* limit_overlaps.check(self, s):
\* s.largest_overlap() <= ((np.min(s.r) * 2) * self.fraction)
check(self, s) ==
    s.largest_overlap * Tenths <= (np_min(s.r) * 2) * self.fraction

(***************************************************************************)
(* Bounds and inputs                                                       *)
(***************************************************************************)
\* the largest number of entries of a generated scatterer description
MaxLeaves == 4
\* the largest number of constraints of a Model
MaxConstraints == 2
\* the length of the last axis of the observed data
MaxSide == 2
\* the largest number of Models built on one binder
MaxModels == 2
\* the largest number of spheres of a scatterer handed to a constraint
MaxSpheres == 2

\* parameter names of scatterer descriptions
n_0x == <<"0", ":", "x">>
n_1x == <<"1", ":", "x">>
n_a_x == <<"a", "_", "x">>
n_b_x == <<"b", "_", "x">>
n_x == <<"x">>
n_center_1x == <<"c","e","n","t","e","r","_","1",".","x">>
n_center_2x == <<"c","e","n","t","e","r","_","2",".","x">>
n_n == <<"n">>
n_r == <<"r">>
n_d == <<"d">>
n_0n == <<"0", ":", "n">>
n_1n == <<"1", ":", "n">>

NamePool == {n_0x, n_1x, n_a_x, n_b_x, n_x, n_center_1x, n_center_2x}

\* two Priors that are different objects with the same guess, and a Fixed
P1 == Prior(1, 5)
P2 == Prior(2, 5)
F3 == Fixed(3, 4)
LeafPool == {P1, P2, F3}

\* the values a caller supplies for a parameter
Vals == {5, 6}

\* the names of a set, smallest first
RECURSIVE Ascending(_)
Ascending(S) ==
    IF S = {} THEN <<>>
    ELSE LET lo == CHOOSE n \in S : \A q \in S \ {n} : StrLess(n, q)
         IN  <<lo>> \o Ascending(S \ {lo})

\* a description: the items of obj.parameters in the order the dict has them
Entry(name, par) == [name |-> name, par |-> par]
Described(seq, f) == [k \in 1..Len(seq) |-> Entry(seq[k], f[seq[k]])]

GeneratedDescs ==
    UNION { UNION { {Described(Ascending(S), f),
                     Described(Reverse(Ascending(S)), f)} : f \in [S -> LeafPool] }
            : S \in {T \in SUBSET NamePool : Cardinality(T) \in 1..MaxLeaves} }

\* descriptions with ComplexPrior leaves, nested mappings and plain numbers
StructuredDescs ==
    { <<Entry(n_n, ComplexPrior(4, P1, F3)), Entry(n_r, P2)>>,
      <<Entry(n_0n, ComplexPrior(4, P1, F3)), Entry(n_1n, ComplexPrior(5, P1, P2))>>,
      <<Entry(n_d, Dict(<<[key |-> <<"a">>, val |-> P1],
                          [key |-> <<"b">>, val |-> Num(3)]>>)),
        Entry(n_r, Num(7))>>,
      <<Entry(n_d, Dict(<<[key |-> <<"a">>, val |-> F3]>>)),
        Entry(n_r, P1), Entry(n_n, Num(3))>>,
      <<Entry(n_n, Num(3)), Entry(n_r, F3)>> }

BinderDescs == GeneratedDescs \cup StructuredDescs

\* the descriptions a Model is built on
ModelDescs ==
    { <<Entry(n_r, P1)>>,
      <<Entry(n_n, Num(3)), Entry(n_r, P1)>>,
      <<Entry(n_n, Num(3)), Entry(n_r, F3)>>,
      <<Entry(n_0x, P1), Entry(n_1x, P1)>>,
      <<Entry(n_a_x, P1), Entry(n_b_x, P1), Entry(n_x, P2)>>,
      <<Entry(n_0x, P1), Entry(n_1x, P1), Entry(n_a_x, P2), Entry(n_b_x, P2)>>,
      <<Entry(n_n, ComplexPrior(4, P1, F3)), Entry(n_r, P2)>> }

\* the arguments of Model(...)
MediumIndexArgs ==
    { None, Num(2), NamedPrior("Prior", 11, 2, NoName),
      Dict(<<[key |-> <<"a">>, val |-> NamedPrior("Prior", 11, 2, NoName)],
             [key |-> <<"b">>, val |-> Num(1)]>>),
      Dict(<<[key |-> <<"a">>, val |-> Num(1)],
             [key |-> <<"b">>, val |-> None]>>) }
WavelenArgs == { None, Num(3) }
PolarizationArgs == { Num(1) }
\* alpha: nothing, a number, a Prior, a Fixed, the Prior object that is also
\* a medium_index argument, and a Prior that already carries the name r
AlphaArgs == { None, Num(2), NamedPrior("Prior", 12, 1, NoName),
               NamedPrior("Fixed", 13, 1, NoName),
               NamedPrior("Prior", 11, 2, NoName),
               NamedPrior("Prior", 14, 3, n_r) }

ModelArgs ==
    [medium_index : MediumIndexArgs, illum_wavelen : WavelenArgs,
     illum_polarization : PolarizationArgs, theory : {Str("auto")},
     alpha : AlphaArgs, constraints : 0..MaxConstraints]

\* the arguments of a Model that is built on a binder another Model already
\* uses
AgainArgs ==
    { [medium_index |-> Num(2), illum_wavelen |-> Num(3),
       illum_polarization |-> Num(1), theory |-> Str("auto"),
       alpha |-> NamedPrior("Prior", 15, 1, NoName), constraints |-> 0] }

\* the fraction argument of limit_overlaps, in tenths, or none
FractionArgs == { NotGiven, Num(0), Num(1), Num(5) }
\* the radii of the spheres and the value of largest_overlap()
Radii == {5, 10}
Overlaps == {0 - 1, 0, 1, 2, 5}
RadiiSeqs == UNION {[1..n -> Radii] : n \in 1..MaxSpheres}
Clusters == [largest_overlap : Overlaps, r : RadiiSeqs]

\* observed data: an array that carries the optics metadata as attributes
Data(shape, attrs) ==
    [kind |-> "schema", shape |-> shape,
     vals |-> [k \in 1..Size(shape) |-> k], attrs |-> attrs]

FullMeta == (medium_index :> Num(9)) @@ (illum_wavelen :> Num(8))
            @@ (illum_polarization :> Num(7))
NoIndexMeta == (illum_wavelen :> Num(8)) @@ (illum_polarization :> Num(7))

Datas == { Data(<<MaxSide>>, FullMeta), Data(<<2, MaxSide>>, FullMeta),
           Data(<<MaxSide>>, NoIndexMeta) }

\* what calc_func does when it is called for a schema
CalcDoes(schema) ==
    { [raises |-> TRUE, vals |-> <<>>],
      [raises |-> FALSE, vals |-> [k \in 1..Size(schema.shape) |-> 10 * k]] }

\* the sequences of n booleans
BoolSeqs(n) == [1..n -> BOOLEAN]

\* the names of a parameter list
NameSet(ps) == {ps[i].name : i \in 1..Len(ps)}

\* {p.name: p.guess for p in parameters}: a later entry replaces an earlier
RECURSIVE guess_dict(_)
guess_dict(ps) ==
    IF ps = <<>> THEN <<>>
    ELSE (ps[Len(ps)].name :> Num(ps[Len(ps)].guess))
         @@ guess_dict(SubSeq(ps, 1, Len(ps) - 1))

\* the flat mappings a caller supplies: a value for every parameter name
FlatMaps(ps) == [NameSet(ps) -> {Num(v) : v \in Vals}]

(***************************************************************************)
(* State                                                                   *)
(***************************************************************************)
VARIABLES
    obj,         \* the scatterer description: the items of obj.parameters
    built,       \* whether ParameterizedObject(obj) has been constructed
    parameters,  \* binder.parameters; a Model's _parameters is this list
    ties,        \* binder.ties, in insertion order
    model,       \* the Model built on the binder
    last         \* the last call: its name, its arguments and its result

vars == <<obj, built, parameters, ties, model, last>>

NoModel == [status |-> "none", n |-> 0]

InitFrom(descs) ==
    /\ obj \in descs
    /\ built = FALSE
    /\ parameters = <<>>
    /\ ties = <<>>
    /\ model = NoModel
    /\ last = [op |-> "none"]

Init == InitFrom(ModelDescs)

InitBinder == InitFrom(BinderDescs)

\* ParameterizedObject(obj)
Construct ==
    /\ ~built
    /\ built' = TRUE
    /\ LET st == Discovered(obj)
       IN  /\ parameters' = NamedCopies(st)
           /\ ties' = st.ties
    /\ last' = [op |-> "ParameterizedObject"]
    /\ UNCHANGED <<obj, model>>

\* binder.guess.  guess and make_from leave the binder as it is, so they are
\* explored on the binder before a Model is built on it.
Guess ==
    /\ built
    /\ model = NoModel
    /\ last' = [op |-> "guess", res |-> guess(obj, ties)]
    /\ UNCHANGED <<obj, built, parameters, ties, model>>

\* binder.make_from(flat)
MakeFrom ==
    /\ built
    /\ model = NoModel
    /\ \E flat \in FlatMaps(parameters) :
          last' = [op |-> "make_from", arg |-> flat,
                   res |-> make_from(obj, ties, flat)]
    /\ UNCHANGED <<obj, built, parameters, ties, model>>

\* what Model.__init__ leaves: the exception or the attributes of the new
\* Model; n counts the Models built on the binder so far
Constructed(m, a, n) ==
    [status |-> IF Len(m.parameters) = 0
                THEN "ParameterSpecificationError" ELSE "ok",
     attrs |-> m.attrs, names |-> m.names,
     constraints |-> a.constraints, n |-> n]

\* Model(binder, calc_func, ...): the first Model on the binder, or a
\* further Model on the same binder right after another one; before is the
\* binder's list as the call found it
ModelInit ==
    /\ built
    /\ \E a \in ModelArgs \cup AgainArgs :
          /\ \/ model = NoModel /\ a \in ModelArgs
             \/ /\ last.op = "Model"
                /\ model.n < MaxModels
                /\ a \in AgainArgs
          /\ LET m == ModelAttrs(parameters, a)
             IN  /\ parameters' = m.parameters
                 /\ model' = Constructed(m, a, model.n + 1)
                 /\ last' = [op |-> "Model", arg |-> a, before |-> parameters]
    /\ UNCHANGED <<obj, built, ties>>

\* limit_overlaps(fraction).check(s), for a constraint built on its own
CheckOverlaps ==
    /\ last.op = "none"
    /\ \E fraction \in FractionArgs, s \in Clusters :
          last' = [op |-> "check", arg |-> [fraction |-> fraction, s |-> s],
                   res |-> check(limit_overlaps(fraction), s)]
    /\ UNCHANGED <<obj, built, parameters, ties, model>>

\* [p.guess for p in self.parameters]
model_guess(ps) == [i \in 1..Len(ps) |-> ps[i].guess]

\* the properties Model.parameters, Model.guess and Model.guess_dict, read
\* on the Model as it is after construction
ModelGuess ==
    /\ model.status = "ok"
    /\ last.op = "Model"
    /\ last' = [op |-> "Model.guess", arg |-> last.arg,
                res |-> [parameters |-> parameters,
                         guess |-> model_guess(parameters),
                         guess_dict |-> guess_dict(parameters)]]
    /\ UNCHANGED <<obj, built, parameters, ties, model>>

\* model.get_parameter(name, pars, schema), called on the Model as it is
\* after construction (the call changes nothing but its own copy of pars)
GetParameter ==
    /\ model.status = "ok"
    /\ last.op = "Model"
    /\ \E name \in {alpha, medium_index, illum_wavelen, illum_polarization},
          pars \in FlatMaps(parameters), schema \in Datas \cup {None} :
          last' = [op |-> "get_parameter",
                   arg |-> [name |-> name, pars |-> pars, schema |-> schema],
                   res |-> get_parameter(model, name, pars, schema)]
    /\ UNCHANGED <<obj, built, parameters, ties, model>>

\* the working mapping of _calc after the lookups of alpha and of the
\* optics, each of which pops the key it finds
working_pars(m, pars0, schema) ==
    get_optics(m, optics_keys, get_parameter(m, alpha, pars0, None).pars,
               schema, <<>>).pars

\* _calc working on the mapping of the caller itself
pars_after_nocopy(pars0, worked) == worked

\* pars = copy(pars): _calc works on a copy, so the mapping of the caller
\* is after the call what it was before it
pars_after(pars0, worked) == pars0

\* model.residual(pars, data), called on the Model as it is after
\* construction or after an earlier residual call.  The answers of the
\* constraints and the behaviour of calc_func belong to collaborators and
\* are inputs of the call; a call that follows another one repeats it with
\* the same inputs.  pars is the caller's mapping as the call leaves it.
Residual ==
    /\ model.status = "ok"
    /\ last.op \in {"Model", "residual"}
    /\ \E pars \in FlatMaps(parameters), data \in Datas,
          outcomes \in BoolSeqs(model.constraints) :
          \E calcdoes \in CalcDoes(data) :
             /\ last.op = "residual" =>
                   /\ pars = last.arg.pars
                   /\ data = last.arg.data
                   /\ outcomes = last.arg.outcomes
                   /\ calcdoes = last.arg.calcdoes
             /\ last' = [op |-> "residual",
                         arg |-> [pars |-> pars, data |-> data,
                                  outcomes |-> outcomes,
                                  calcdoes |-> calcdoes],
                         res |-> residual(obj, ties, model, outcomes,
                                          calcdoes, pars, data),
                         pars |-> pars_after(pars,
                                             working_pars(model, pars, data))]
    /\ UNCHANGED <<obj, built, parameters, ties, model>>

Next ==
    \/ Construct \/ Guess \/ MakeFrom
    \/ ModelInit \/ ModelGuess \/ GetParameter \/ Residual
    \/ CheckOverlaps

NextBinder == Construct \/ Guess \/ MakeFrom

Spec == Init /\ [][Next]_vars

SpecBinder == InitBinder /\ [][NextBinder]_vars


(***************************************************************************)
(* Properties of the binder                                                *)
(***************************************************************************)
\* every add_par call of the traversal, in order
RECURSIVE Calls(_)
Calls(entries) ==
    IF entries = <<>> THEN <<>>
    ELSE EntryCalls(Head(entries)) \o Calls(Tail(entries))

\* the dotted paths of the description whose leaf is a free Prior
FreePaths ==
    LET cs == Calls(sorted_parameters(obj))
    IN  {[name |-> cs[k].name, id |-> cs[k].p.id] :
            k \in {j \in 1..Len(cs) : cs[j].p.kind = "Prior"}}

\* the dotted paths that reference the Prior with identity id
PathsOf(id) == {fp.name : fp \in {q \in FreePaths : q.id = id}}

Members(group) == {group[k] : k \in 1..Len(group)}

\* n1 and n2 are members of one ties group
SameGroup(n1, n2) ==
    \E k \in 1..Len(ties) : {n1, n2} \subseteq Members(ties[k].group)

\* the final name of the registered parameter that stands for Prior id
FinalName(id) ==
    (CHOOSE q \in {parameters[i] : i \in 1..Len(parameters)} :
        q.copy /\ q.kind = "Prior" /\ q.id = id).name

\* C1: the names of binder.parameters are pairwise distinct and no entry is
\* a Fixed value, for every accepted description, tied Priors included.
C1_DistinctNamesNoFixed ==
    built =>
        /\ \A i, j \in 1..Len(parameters) :
              i # j => parameters[i].name # parameters[j].name
        /\ \A i \in 1..Len(parameters) : parameters[i].kind # "Fixed"

\* C2: two distinct original dotted names are members of one ties group if
\* and only if their leaves are the identical Prior object.
C2_GroupedIffSamePrior ==
    built =>
        \A a, b \in FreePaths :
            a.name # b.name => (SameGroup(a.name, b.name) <=> a.id = b.id)

\* a Prior that exactly the two paths a and b reference
ExactPair(a, b) ==
    a.name # b.name /\ a.id = b.id /\ PathsOf(a.id) = {a.name, b.name}

TiedIds == {fp.id : fp \in {q \in FreePaths : Cardinality(PathsOf(q.id)) > 1}}

Carried(pars, path) ==
    IF path \in DOMAIN pars THEN pars[path]
    ELSE IF \E n \in DOMAIN pars :
            pars[n].kind = "complex" /\ path = n \o DotReal
    THEN Num(pars[CHOOSE n \in DOMAIN pars :
            pars[n].kind = "complex" /\ path = n \o DotReal].re)
    ELSE KeyError

\* the keys of obj.parameters
OriginalNames == {obj[k].name : k \in 1..Len(obj)}

\* C4: make_from with a value v under the name of a tie group hands to
\* from_parameters a mapping in which every member path of the group carries
\* v and whose keys are exactly the original names of the description.
C4_TiedValueReachesEveryMember ==
    (last.op = "make_from" /\ ties # <<>>) =>
        /\ last.res.status = "ok"
        /\ DOMAIN last.res.pars = OriginalNames
        /\ \A k \in 1..Len(ties) :
              ties[k].key \in DOMAIN last.arg =>
                 \A n \in Members(ties[k].group) \cap {fp.name : fp \in FreePaths} :
                    Carried(last.res.pars, n) = last.arg[ties[k].key]

\* C5: make_from applied to {parameter name -> guess} reconstructs the
\* scatterer that binder.guess returns.
C5_GuessRoundTrip ==
    (last.op = "make_from" /\ last.arg = guess_dict(parameters)) =>
        /\ last.res.status = "ok"
        /\ guess(obj, ties).status = "ok"
        /\ last.res.pars = guess(obj, ties).pars


(***************************************************************************)
(* Properties of the Model                                                 *)
(***************************************************************************)
AllInf(a) == \A k \in 1..Len(a.vals) : a.vals[k] = PosInf

\* a residual call in which a constraint answered false
SomeCheckFalse ==
    /\ last.op = "residual"
    /\ last.res.status = "ok"
    /\ \E k \in 1..Len(last.res.checked) : ~last.res.checked[k]

\* calc_func is called only after every constraint has answered true
CalcOnlyWhenAllAccept ==
    (last.op = "residual" /\ last.res.calls # <<>>) =>
        /\ Len(last.res.checked) = model.constraints
        /\ AllTrue(last.res.checked)

\* C6 as stated: when a constraint answers false, residual returns an array
\* of the shape of the schema filled with +infinity and calc_func is not
\* called; calc_func is called only after every constraint answered true.
C6_InfeasibleSchemaShape ==
    /\ SomeCheckFalse =>
          /\ last.res.arr.shape = last.arg.data.shape
          /\ AllInf(last.res.arr)
          /\ last.res.calls = <<>>
    /\ CalcOnlyWhenAllAccept

\* C6 amended: when a constraint answers false, residual returns a one
\* dimensional array with as many elements as the schema, all +infinity
\* (the array of the schema's shape is what _calc returns, residual flattens
\* it), and calc_func is not called; calc_func is called only after every
\* constraint answered true.
C6_InfeasibleFlatInf ==
    /\ SomeCheckFalse =>
          /\ last.res.arr.shape = <<Size(last.arg.data.shape)>>
          /\ Len(last.res.arr.vals) = Size(last.arg.data.shape)
          /\ AllInf(last.res.arr)
          /\ last.res.calls = <<>>
    /\ CalcOnlyWhenAllAccept

\* a constraint rejected the scatterer of a two dimensional data set
C6_Witness ==
    /\ SomeCheckFalse
    /\ Len(last.arg.data.shape) = 2
    /\ model.constraints = MaxConstraints

\* C7: when calc_func raises, residual does not propagate and returns a one
\* dimensional array of +infinity with as many elements as the schema.
C7_CalcRaisesGivesInf ==
    (last.op = "residual" /\ last.res.calls # <<>> /\ last.arg.calcdoes.raises)
    => /\ last.res.status = "ok"
       /\ last.res.arr.shape = <<Size(last.arg.data.shape)>>
       /\ Len(last.res.arr.vals) = Size(last.arg.data.shape)
       /\ AllInf(last.res.arr)

\* calc_func was called for a two dimensional data set and raised
C7_Witness ==
    /\ last.op = "residual"
    /\ Len(last.res.calls) = 1
    /\ last.arg.calcdoes.raises
    /\ Len(last.arg.data.shape) = 2

\* the four sources of get_parameter, for the arguments of the last call
InPars == last.arg.name \in DOMAIN last.arg.pars
HasAttr ==
    /\ last.arg.name \in DOMAIN model.attrs
    /\ model.attrs[last.arg.name] # None
HasNames == last.arg.name \in DOMAIN model.names
InSchema ==
    /\ last.arg.schema # None
    /\ last.arg.name \in DOMAIN last.arg.schema.attrs

\* what sources (1), (2) and (4) return
DirectSources ==
    /\ InPars =>
          /\ last.res.exc = ""
          /\ last.res.val = last.arg.pars[last.arg.name]
          /\ last.res.pars = Pop(last.arg.pars, last.arg.name)
    /\ (~InPars /\ HasAttr) =>
          /\ last.res.exc = ""
          /\ last.res.val = model.attrs[last.arg.name]
          /\ last.res.pars = last.arg.pars
    /\ (~InPars /\ ~HasAttr /\ ~HasNames /\ InSchema) =>
          /\ last.res.exc = ""
          /\ last.res.val = last.arg.schema.attrs[last.arg.name]
          /\ last.res.pars = last.arg.pars

\* source (3) returned a mapping over the recorded sub-keys
SubMapping ==
    /\ last.res.exc = ""
    /\ last.res.val.kind = "dictval"
    /\ Keys(last.res.val.items) = model.names[last.arg.name]

\* C8 as stated: get_parameter returns the first source that applies among
\* pars[name] (popped), the non-null attribute, the mapping built from
\* <name>_names and the attribute of the schema, and raises MissingParameter
\* naming the parameter exactly when none of the four applies.
C8_ResolutionOrder ==
    last.op = "get_parameter" =>
        /\ DirectSources
        /\ (~InPars /\ ~HasAttr /\ HasNames) => SubMapping
        /\ last.res.exc = "MissingParameter"
              <=> (~InPars /\ ~HasAttr /\ ~HasNames /\ ~InSchema)
        /\ last.res.exc = "MissingParameter" => last.res.excname = last.arg.name

\* a sub-name of the last call's parameter that nothing resolves: it has no
\* entry in pars and its attribute is None
Unresolved(key) ==
    LET sub == Sub(last.arg.name, key)
    IN  /\ sub \notin DOMAIN last.arg.pars
        /\ sub \in DOMAIN model.attrs => model.attrs[sub] = None
        /\ sub \notin DOMAIN model.names

\* C8 amended: the same order of sources; in case (3) each sub-name is
\* resolved by get_parameter without the schema, so the call returns the
\* mapping when every sub-name has a pars entry or a non-null attribute and
\* otherwise raises MissingParameter naming the unresolved sub-name; when
\* none of the four sources applies it raises MissingParameter naming the
\* parameter, and it raises in no other case.
C8_ResolutionOrderAmended ==
    last.op = "get_parameter" =>
        /\ DirectSources
        /\ (~InPars /\ ~HasAttr /\ HasNames) =>
              LET keys == model.names[last.arg.name]
              IN  IF \E k \in 1..Len(keys) : Unresolved(keys[k])
                  THEN /\ last.res.exc = "MissingParameter"
                       /\ \E k \in 1..Len(keys) :
                             /\ Unresolved(keys[k])
                             /\ last.res.excname = Sub(last.arg.name, keys[k])
                  ELSE SubMapping
        /\ (~InPars /\ ~HasAttr /\ ~HasNames /\ ~InSchema) =>
              /\ last.res.exc = "MissingParameter"
              /\ last.res.excname = last.arg.name
        /\ last.res.exc = "MissingParameter" =>
              \/ ~InPars /\ ~HasAttr /\ ~HasNames /\ ~InSchema
              \/ ~InPars /\ ~HasAttr /\ HasNames

\* get_parameter met a recorded sub-key list with an unresolved sub-name,
\* while the schema had the attribute
C8_Witness ==
    /\ last.op = "get_parameter"
    /\ ~InPars /\ ~HasAttr /\ HasNames /\ InSchema
    /\ last.res.exc = "MissingParameter"

\* C9: Model(...) raises ParameterSpecificationError exactly when no free
\* parameter exists after the scatterer, the optics, the theory and alpha
\* have been registered.
C9_ErrorIffNoFreeParameter ==
    last.op = "Model" =>
        (model.status = "ParameterSpecificationError"
            <=> ~\E i \in 1..Len(parameters) : parameters[i].kind = "Prior")

\* the entries of the description whose value is a constant
FixedEntries ==
    {e \in {obj[k] : k \in 1..Len(obj)} : e.par.kind \in {"num", "Fixed"}}

ConstantOf(par) == IF par.kind = "Fixed" THEN Num(par.guess) ELSE par

\* C10: when the constraints accept and calc_func does not raise, residual
\* calls calc_func exactly once with the scatterer of make_from, in which
\* every free leaf has the value supplied under its parameter name and every
\* fixed leaf its constant, and returns the flattened simulated - observed.
C10_ResidualOfReconstructed ==
    ( /\ last.op = "residual"
      /\ AllTrue(last.arg.outcomes)
      /\ ~last.arg.calcdoes.raises
      /\ last.res.status # "MissingParameter" )
    => /\ last.res.status = "ok"
       /\ Len(last.res.calls) = 1
       /\ LET sc == last.res.calls[1].scatterer
          IN  /\ DOMAIN sc = OriginalNames
              /\ \A fp \in FreePaths :
                    Carried(sc, fp.name) = last.arg.pars[FinalName(fp.id)]
              /\ \A e \in FixedEntries : sc[e.name] = ConstantOf(e.par)
       /\ last.res.arr.shape = <<Size(last.arg.data.shape)>>
       /\ \A k \in 1..Size(last.arg.data.shape) :
             last.res.arr.vals[k]
                = last.arg.calcdoes.vals[k] - last.arg.data.vals[k]

\* the free Priors among the leaves of one constructor argument, in the
\* order of the argument's keys
RECURSIVE FreeAux(_)
RECURSIVE FreeAuxItems(_)
FreeAuxItems(items) ==
    IF items = <<>> THEN <<>>
    ELSE FreeAux(Head(items).val) \o FreeAuxItems(Tail(items))

FreeAux(par) ==
    IF par.kind = "dict" THEN FreeAuxItems(par.items)
    ELSE IF par.kind = "Prior" THEN <<par>> ELSE <<>>

\* the free optics parameters of a Model built with arguments a, followed by
\* its alpha
OwnAux(a) ==
    FreeAux(a.medium_index) \o FreeAux(a.illum_wavelen)
        \o FreeAux(a.illum_polarization) \o FreeAux(a.theory)
        \o FreeAux(a.alpha)

\* the parameters the binder discovered in the scatterer description
ScattererParameters == NamedCopies(Discovered(obj))

\* C11: Model.parameters is the binder's parameters in binder order, then
\* the free optics parameters in the order medium_index, illum_wavelen,
\* illum_polarization, theory, then alpha; Model.guess lists the guesses in
\* that order and Model.guess_dict maps each parameter's name to its guess.
C11_ParameterOrder ==
    last.op = "Model.guess" =>
        LET own == OwnAux(last.arg)
            sc  == ScattererParameters
            ps  == last.res.parameters
        IN  /\ Len(ps) = Len(sc) + Len(own)
            /\ \A i \in 1..Len(sc) : ps[i] = sc[i]
            /\ \A j \in 1..Len(own) :
                  /\ ps[Len(sc) + j].kind = "Prior"
                  /\ ps[Len(sc) + j].id = own[j].id
            /\ last.res.guess = [i \in 1..Len(ps) |-> ps[i].guess]
            /\ DOMAIN last.res.guess_dict = NameSet(ps)
            /\ \A i \in 1..Len(ps) :
                  last.res.guess_dict[ps[i].name] = Num(ps[i].guess)

\* nothing resolves name in a residual call: pars has no entry, the Model
\* attribute is None, no sub-keys are recorded, the schema has no attribute
CannotResolve(name, schema) ==
    /\ name \notin DOMAIN last.arg.pars
    /\ name \in DOMAIN model.attrs => model.attrs[name] = None
    /\ name \notin DOMAIN model.names
    /\ schema # None => name \notin DOMAIN schema.attrs

\* C12: in a residual call a MissingParameter raised while alpha is resolved
\* is caught and the scaling handed to calc_func is 1; a MissingParameter
\* raised while medium_index, illum_wavelen or illum_polarization is
\* resolved reaches the caller: no array is returned, calc_func is not called.
C12_AlphaDefaultOpticsPropagate ==
    last.op = "residual" =>
        /\ (CannotResolve(alpha, None) /\ Len(last.res.calls) = 1) =>
              last.res.calls[1].scaling = Num(1)
        /\ (\E k \in 1..Len(optics_keys) :
                CannotResolve(optics_keys[k], last.arg.data)) =>
              /\ last.res.status = "MissingParameter"
              /\ last.res.arr = Array(<<>>, <<>>)
              /\ last.res.calls = <<>>

\* a residual call in which alpha's MissingParameter was caught and that of
\* medium_index reached the caller
C12_Witness ==
    /\ last.op = "residual"
    /\ CannotResolve(alpha, None)
    /\ CannotResolve(medium_index, last.arg.data)
    /\ last.res.status = "MissingParameter"
    /\ last.res.excname = medium_index

\* C13: no entry of Model.parameters, and so of Model.guess, is a Fixed or a
\* ComplexPrior, whatever is supplied as medium_index, illum_wavelen,
\* illum_polarization, theory or alpha, directly or inside a mapping.
C13_NoFixedNoComplexRegistered ==
    last.op \in {"Model", "Model.guess"} =>
        \A i \in 1..Len(parameters) :
            parameters[i].kind \notin {"Fixed", "ComplexPrior"}

\* C14: the names of Model.parameters are pairwise distinct, also when an
\* auxiliary Prior already carries a name, when one Prior object is supplied
\* for two auxiliary roles and when a role name equals a scatterer
\* parameter name.
C14_DistinctModelNames ==
    last.op \in {"Model", "Model.guess"} =>
        \A i, j \in 1..Len(parameters) :
            parameters[i].name = parameters[j].name => i = j

\* C15: limit_overlaps(fraction).check(s) is true exactly when
\* s.largest_overlap() is at most fraction times 2 times the smallest
\* component radius, and false otherwise; fraction is 0.1 when not given.
C15_LimitOverlaps ==
    last.op = "check" =>
        LET s == last.arg.s
            f == IF last.arg.fraction = NotGiven THEN 1
                 ELSE last.arg.fraction.val
        IN  \E k \in 1..Len(s.r) :
               /\ \A j \in 1..Len(s.r) : s.r[k] <= s.r[j]
               /\ last.res = (10 * s.largest_overlap <= f * 2 * s.r[k])

\* a check with the default fraction, an overlap exactly at the bound, and
\* the smallest radius not the first one
C15_Witness ==
    /\ last.op = "check"
    /\ last.arg.fraction = NotGiven
    /\ last.arg.s = [largest_overlap |-> 1, r |-> <<10, 5>>]
    /\ last.res = TRUE

RECURSIVE GuessOf(_)
RECURSIVE GuessOfItems(_)
GuessOfItems(items) ==
    IF items = <<>> THEN <<>>
    ELSE <<[key |-> Head(items).key, val |-> GuessOf(Head(items).val)]>>
         \o GuessOfItems(Tail(items))

GuessOf(par) ==
    IF par.kind = "ComplexPrior"
    THEN Complex(GuessOf(par.real).val, GuessOf(par.imag).val)
    ELSE IF par.kind = "dict" THEN DictVal(GuessOfItems(par.items))
    ELSE IF par.kind \in {"Prior", "Fixed"} THEN Num(par.guess)
    ELSE par

\* C17: for every description the binder accepts, tied Priors and mappings
\* with free Priors included, binder.guess completes without error and
\* returns the scatterer in which every Prior or Fixed leaf is replaced by
\* its guess, every ComplexPrior by real guess + 1i * imaginary guess, and
\* every constant is kept.
C17_GuessOfEveryDescription ==
    last.op = "guess" =>
        /\ last.res.status = "ok"
        /\ DOMAIN last.res.pars = {obj[k].name : k \in 1..Len(obj)}
        /\ \A k \in 1..Len(obj) :
              last.res.pars[obj[k].name] = GuessOf(obj[k].par)

\* C18: for a Prior that three or more paths reference, ties holds exactly
\* one group for that Prior: its key is the final name of the registered
\* parameter, its members are exactly the original dotted paths that
\* reference the Prior (no intermediate group name among them), and no
\* stale group remains.
C18_OneGroupForThreeWayTie ==
    built =>
        \A id \in {fp.id : fp \in FreePaths} :
            Cardinality(PathsOf(id)) >= 3 =>
                \E k \in 1..Len(ties) :
                    /\ ties[k].key = FinalName(id)
                    /\ Members(ties[k].group) = PathsOf(id)
                    /\ Len(ties[k].group) = Cardinality(PathsOf(id))
                    /\ \A j \in 1..Len(ties) :
                          j # k => Members(ties[j].group) \cap PathsOf(id) = {}

\* C19: building a Model on an already built binder leaves the binder's
\* parameters list as it was, so a Model built on a binder that another
\* Model already uses holds the binder's scatterer parameters followed by
\* its own optics and alpha parameters, and none of the other Model's.
C19_BinderListUnchanged ==
    last.op = "Model" =>
        /\ parameters = last.before
        /\ \A i \in 1..Len(parameters) :
              \/ /\ i <= Len(ScattererParameters)
                 /\ parameters[i] = ScattererParameters[i]
              \/ \E k \in 1..Len(OwnAux(last.arg)) :
                    parameters[i].id = OwnAux(last.arg)[k].id

=============================================================================
